---- MODULE Spec2Model ----
(***************************************************************************)
(* Applicant screening: the in-memory store (lib/store), the upload        *)
(* handler with its oracle call (api/applicants/upload/route.ts) and the   *)
(* read handlers (summary, list, top-candidates, get/delete by id).        *)
(*                                                                         *)
(* Conventions.  A nullable JavaScript value is a sequence of length at    *)
(* most one: <<>> is null/undefined/absent, <<v>> is the value v.  A       *)
(* Buffer is a sequence of bytes, a string a sequence of one-character     *)
(* strings.  The Map of the store is the sequence of its values in         *)
(* iteration (insertion) order.  Numbers parsed by parseFloat are carried  *)
(* in tenths.                                                              *)
(***************************************************************************)
EXTENDS Integers, Sequences, FiniteSets, TLC

\* ------------------------------------------------------------------ bounds
MaxUploads == 3

Uploads == 1..MaxUploads

\* identifiers that a get / delete request may name (one more than can exist)
ReqIds == 1..(MaxUploads + 1)

\* ----------------------------------------------------------------- helpers
Null == <<>>

Some(v) == <<v>>

Max(a, b) == IF a >= b THEN a ELSE b

Min(a, b) == IF a <= b THEN a ELSE b

\* Array.prototype.filter with the predicate given as a set of kept indexes
RECURSIVE FilterIdx(_, _, _)
FilterIdx(s, keep, i) ==
  IF i > Len(s) THEN <<>>
  ELSE (IF i \in keep THEN <<s[i]>> ELSE <<>>) \o FilterIdx(s, keep, i + 1)

\* -------------------------------------------------------------- pdf-utils
\* "%PDF-" as character codes
PdfHeader == <<37, 80, 68, 70, 45>>

\* the replacement character a non-ASCII byte decodes to
Replacement == 65533

\* buffer.toString('utf8', start, end) on buffers of single bytes: an ASCII
\* byte is its own character, any other byte decodes to U+FFFD
BufferToString(buffer, start, end) ==
  LET e == Min(end, Len(buffer))
  IN [i \in 1..Max(0, e - start) |->
        IF buffer[start + i] < 128 THEN buffer[start + i] ELSE Replacement]

\* a validatePDF that compares only as many characters as the buffer has
validatePDFPrefix(buffer) ==
  LET pdfHeader == BufferToString(buffer, 0, 5)
  IN pdfHeader = SubSeq(PdfHeader, 1, Len(pdfHeader))

validatePDF(buffer) == BufferToString(buffer, 0, 5) = PdfHeader

\* -------------------------------------------------------- request inputs
GoodPdf == <<37, 80, 68, 70, 45, 49>>

TruncatedPdf == <<37, 80, 68, 70>>

NotPdf == <<60, 104, 116, 109, 108, 62>>

Req(r, c, t) == [resume |-> r, cover_letter |-> c, transcript |-> t]

\* the form data of the upload requests that are sent: one passes validation
\* (a resume and a transcript, no cover letter), the others fail it at each
\* of its checks
Requests ==
  { Req(Null, Null, Null),
    Req(Some(GoodPdf), Null, Some(GoodPdf)),
    Req(Some(TruncatedPdf), Null, Null),
    Req(Some(GoodPdf), Some(NotPdf), Null),
    Req(Some(GoodPdf), Some(GoodPdf), Some(TruncatedPdf)),
    Req(Null, Null, Some(<<>>)) }

\* ------------------------------------------------------------ the oracle
\* what the chat-completion call gives back: it throws, or its content does
\* not parse, or it parses to an object with some fields present
Parsed(os, rs, rec, conf) ==
  [kind |-> "ok", overall_score |-> os, resume_score |-> rs,
   recommended_for_interview |-> rec, confidence_level |-> conf]

\* a parsed response that also carries a rank and a percentile
Ranked(o) == o @@ [rank |-> 1, percentile |-> 99]

Outcomes ==
  { [kind |-> "throw"],
    [kind |-> "badjson"],
    Parsed(Null, Null, Null, Null),
    Parsed(Some(0), Some(0), Null, Null),
    Parsed(Some(45), Some(70), Some(TRUE), Some("high")),
    Ranked(Parsed(Some(150), Null, Some(TRUE), Some("high"))) }

\* the oracle outcomes of the single-upload specification: every combination
\* of present, absent and falsy fields
AllOutcomes ==
  { [kind |-> "throw"], [kind |-> "badjson"] } \cup
  { Parsed(os, rs, rec, conf) :
      os \in {Null, Some(0), Some(30), Some(45), Some(59), Some(60), Some(85),
              Some(150)},
      rs \in {Null, Some(0), Some(70)},
      rec \in {Null, Some(TRUE), Some(FALSE)},
      conf \in {Null, Some(""), Some("low"), Some("high")} }

\* JavaScript  x || d  on an optional number / boolean / string
\* x ?? d on an optional number: only an absent value gets the default
OrNumNullish(x, d) == IF x = Null THEN d ELSE x[1]

OrNum(x, d) == IF x = Null \/ x[1] = 0 THEN d ELSE x[1]

OrNullNum(x) == IF x = Null \/ x[1] = 0 THEN Null ELSE x

OrBool(x, d) == IF x = Null \/ x[1] = FALSE THEN d ELSE x[1]

OrStr(x, d) == IF x = Null \/ x[1] = "" THEN d ELSE x[1]

\* a screenApplicant whose catch branch returns the parse-success defaults
screenApplicantDefaultsOnError(o) ==
  [overall_score |-> IF o.kind = "ok" THEN OrNum(o.overall_score, 50) ELSE 50,
   resume_score |-> IF o.kind = "ok" THEN OrNullNum(o.resume_score) ELSE Null,
   recommended_for_interview |->
     IF o.kind = "ok" THEN OrBool(o.recommended_for_interview, FALSE) ELSE FALSE,
   confidence_level |->
     IF o.kind = "ok" THEN OrStr(o.confidence_level, "medium") ELSE "medium",
   rank |-> Null,
   percentile |-> Null]

\* a screenApplicant that treats a response without overall_score as a
\* failed screening
screenApplicantFallbackOnMissing(o) ==
  IF o.kind = "ok" /\ o.overall_score # Null
  THEN [overall_score |-> OrNum(o.overall_score, 50),
        resume_score |-> OrNullNum(o.resume_score),
        recommended_for_interview |-> OrBool(o.recommended_for_interview, FALSE),
        confidence_level |-> OrStr(o.confidence_level, "medium"),
        rank |-> Null,
        percentile |-> Null]
  ELSE [overall_score |-> 30,
        resume_score |-> Null,
        recommended_for_interview |-> FALSE,
        confidence_level |-> "low",
        rank |-> Null,
        percentile |-> Null]

\* a screenApplicant that copies rank and percentile from the response
screenApplicantKeepsRank(o) ==
  IF o.kind = "ok"
  THEN [overall_score |-> OrNum(o.overall_score, 50),
        resume_score |-> OrNullNum(o.resume_score),
        recommended_for_interview |-> OrBool(o.recommended_for_interview, FALSE),
        confidence_level |-> OrStr(o.confidence_level, "medium"),
        rank |-> IF "rank" \in DOMAIN o THEN Some(o.rank) ELSE Null,
        percentile |-> IF "percentile" \in DOMAIN o THEN Some(o.percentile) ELSE Null]
  ELSE [overall_score |-> 30,
        resume_score |-> Null,
        recommended_for_interview |-> FALSE,
        confidence_level |-> "low",
        rank |-> Null,
        percentile |-> Null]

\* screenApplicant: the record built from the oracle's outcome (without id,
\* applicant_id and screened_at)
screenApplicant(o) ==
  IF o.kind = "ok"
  THEN [overall_score |-> OrNum(o.overall_score, 50),
        resume_score |-> OrNullNum(o.resume_score),
        recommended_for_interview |-> OrBool(o.recommended_for_interview, FALSE),
        confidence_level |-> OrStr(o.confidence_level, "medium"),
        rank |-> Null,
        percentile |-> Null]
  ELSE [overall_score |-> 30,
        resume_score |-> Null,
        recommended_for_interview |-> FALSE,
        confidence_level |-> "low",
        rank |-> Null,
        percentile |-> Null]

\* ------------------------------------------------------------- the store
VARIABLES
  applicants,   \* InMemoryStore.applicants: the records in iteration order
  nextId,       \* InMemoryStore.nextId
  pc,           \* per upload request: "idle", "buffer" (awaits arrayBuffer of a
                \* file), "extract" (awaits extractTextFromPDF), "awaiting"
                \* (the oracle), "done"
  appId,        \* per upload request: applicant.id of its inserted record, 0 before
  oracleCalls,  \* per upload request: chat-completion calls made
  addLog,       \* identifiers returned by addApplicant since creation / last clear()
  addBy,        \* history: the upload request that made each call of addLog (0: none)
  local,        \* per upload request: the handler's now, documentsUploaded, form
                \* data (req) and the position of the file it is at (file)
  ev            \* the last operation and its response

vars == <<applicants, nextId, pc, appId, oracleCalls, addLog, addBy, local, ev>>

StoredIds(apps) == {apps[i].id : i \in 1..Len(apps)}

IndexOf(apps, id) == CHOOSE i \in 1..Len(apps) : apps[i].id = id

\* Map.get
getApplicant(apps, id) ==
  IF id \in StoredIds(apps) THEN Some(apps[IndexOf(apps, id)]) ELSE Null

\* a store that derives the identifier from the size of the Map
addApplicantIdBySize(apps, next) == Len(apps) + 1

\* the counter read before an await during which another upload advanced
\* it: the value one behind
addApplicantIdStale(apps, next) == Max(next - 1, 1)

\* addApplicant: the identifier it assigns
addApplicantId(apps, next) == next

\* addApplicant: the Map after set(id, newApplicant); a new key goes last
addApplicant(apps, id, fields) ==
  LET newApplicant == [id |-> id, created_at |-> fields.created_at,
                       documents |-> fields.documents,
                       screening_result |-> fields.screening_result]
  IN IF id \in StoredIds(apps)
     THEN [apps EXCEPT ![IndexOf(apps, id)] = newApplicant]
     ELSE Append(apps, newApplicant)

\* an updateApplicant that creates the record when the id is unknown
updateApplicantUpsert(apps, id, updates) ==
  IF id \in StoredIds(apps)
  THEN [apps EXCEPT ![IndexOf(apps, id)] = updates @@ apps[IndexOf(apps, id)]]
  ELSE Append(apps, updates @@ [id |-> id, created_at |-> 0, documents |-> <<>>,
                                screening_result |-> Null])

\* updateApplicant: { ...applicant, ...updates } set under the same key, which
\* keeps its place in the Map; an unknown id changes nothing.  updates is a
\* record of the provided fields (<<>> when none is provided)
updateApplicant(apps, id, updates) ==
  IF id \in StoredIds(apps)
  THEN [apps EXCEPT ![IndexOf(apps, id)] = updates @@ apps[IndexOf(apps, id)]]
  ELSE apps

\* updateApplicant: the value it returns, Null for undefined
updateApplicantReturn(apps, id, updates) ==
  IF id \in StoredIds(apps)
  THEN Some(updates @@ apps[IndexOf(apps, id)])
  ELSE Null

\* a delete that removes by position instead of by key
deleteApplicantByIndex(apps, id) ==
  FilterIdx(apps, {i \in 1..Len(apps) : i # id}, 1)

\* Map.delete
deleteApplicant(apps, id) ==
  FilterIdx(apps, {i \in 1..Len(apps) : apps[i].id # id}, 1)

\* -------------------------------------------------- upload/route.ts: POST
\* the documents of a request in the order the handler processes them
Files(r) == <<r.resume, r.cover_letter, r.transcript>>

DocTypes == <<"resume", "cover_letter", "transcript">>

\* a handler that does not validate the transcript
ValidationErrorSkipsTranscript(r) ==
  IF r.resume = Null /\ r.cover_letter = Null /\ r.transcript = Null
    THEN Some("At least one document must be provided")
  ELSE IF r.resume # Null /\ ~validatePDF(r.resume[1])
    THEN Some("Invalid resume PDF")
  ELSE IF r.cover_letter # Null /\ ~validatePDF(r.cover_letter[1])
    THEN Some("Invalid cover letter PDF")
  ELSE Null

\* the 400 message of the first check that fails, Null when all pass
ValidationError(r) ==
  IF r.resume = Null /\ r.cover_letter = Null /\ r.transcript = Null
    THEN Some("At least one document must be provided")
  ELSE IF r.resume # Null /\ ~validatePDF(r.resume[1])
    THEN Some("Invalid resume PDF")
  ELSE IF r.cover_letter # Null /\ ~validatePDF(r.cover_letter[1])
    THEN Some("Invalid cover letter PDF")
  ELSE IF r.transcript # Null /\ ~validatePDF(r.transcript[1])
    THEN Some("Invalid transcript PDF")
  ELSE Null

Event(op, arg, status, body) ==
  [op |-> op, arg |-> arg, status |-> status, body |-> body]

\* ---------------------------------------------------- text extraction
\* pdfParse(buffer) as pdf-utils.ts evaluates it: pdfParse is the module
\* namespace of import('pdf-parse'), not the library's function, so the
\* call throws a TypeError whatever the buffer holds
PdfParseCall(buffer) == [kind |-> "throw"]

\* extractTextFromPDF: data.text of the call, or the empty string when it
\* throws
extractTextFromPDF(buffer) ==
  IF PdfParseCall(buffer).kind = "text" THEN PdfParseCall(buffer).text ELSE <<>>

ResumeLimit == 4000

OtherLimit == 2000

\* String.prototype.slice(0, n)
Slice(t, n) == SubSeq(t, 1, Min(n, Len(t)))

\* buildPrompt: per section, whether the text is included (otherwise the
\* section reads "Not provided") and the text included
buildPrompt(resumeText, coverLetterText, transcriptText) ==
  LET section(t, n) == IF t # <<>> THEN [provided |-> TRUE, text |-> Slice(t, n)]
                       ELSE [provided |-> FALSE, text |-> <<>>]
  IN << section(resumeText, ResumeLimit),
        section(coverLetterText, OtherLimit),
        section(transcriptText, OtherLimit) >>

\* resumeText, coverLetterText, transcriptText: '' for a file not sent
Texts(r) ==
  [i \in 1..3 |-> IF Files(r)[i] # Null THEN extractTextFromPDF(Files(r)[i][1])
                  ELSE <<>>]

\* a handler that stores and counts only the documents whose extraction
\* gave a text
DocumentsWithTextSkipsFailed(r) ==
  LET kept == {i \in 1..3 : Files(r)[i] # Null /\ Texts(r)[i] # <<>>}
      ds == FilterIdx(DocTypes, kept, 1)
      ts == FilterIdx(Texts(r), kept, 1)
  IN [i \in 1..Len(ds) |->
        [id |-> i, document_type |-> ds[i], extracted_text |-> ts[i]]]

\* the documents array with the extracted_text of each entry
DocumentsWithText(r) ==
  LET kept == {i \in 1..3 : Files(r)[i] # Null}
      ds == FilterIdx(DocTypes, kept, 1)
      ts == FilterIdx(Texts(r), kept, 1)
  IN [i \in 1..Len(ds) |->
        [id |-> i, document_type |-> ds[i], extracted_text |-> ts[i]]]

\* a form field that holds a string where a File is expected
NotAFile == <<0 - 1>>

\* the handler's locals before it has run: no form data, no file reached
NoLocals ==
  [now |-> 0, documentsUploaded |-> 0, req |-> Req(Null, Null, Null), file |-> 0]

\* the first file from position i on that the form data holds (resume,
\* cover letter, transcript: the if-blocks in their order), 4 when none
NextFile(r, i) ==
  IF \E j \in i..3 : Files(r)[j] # Null
  THEN CHOOSE j \in i..3 : Files(r)[j] # Null /\ \A k \in i..(j - 1) : Files(r)[k] = Null
  ELSE 4

\* the form data with the files after position i left out
UpTo(r, i) ==
  Req(IF i >= 1 THEN r.resume ELSE Null,
      IF i >= 2 THEN r.cover_letter ELSE Null,
      IF i >= 3 THEN r.transcript ELSE Null)

\* <file>.arrayBuffer() throws into the outer catch of POST: the field at
\* position j is not a File (its arrayBuffer is not a function)
HandlerThrows(r, j) == j <= 3 /\ Files(r)[j] = Some(NotAFile)

ServerError == [error |-> "Failed to upload and process documents"]

\* the clock values the handlers have read, and what the next read of the
\* clock (new Date().toISOString(), one unit per millisecond) can give: the
\* last value again or a later one
LastClock ==
  LET read == {local[u].now : u \in Uploads}
  IN CHOOSE t \in read : \A t2 \in read : t2 <= t

NextClock == {Max(LastClock, 1), LastClock + 1}

\* POST of a request without any file: the 400 of the first check.
\* Requests are numbered in the order their handlers start.
PostEmpty(u) ==
  /\ pc[u] = "idle"
  /\ \A v \in Uploads : v < u => pc[v] # "idle"
  /\ pc' = [pc EXCEPT ![u] = "done"]
  /\ ev' = Event("upload", [u |-> u, req |-> Some(Req(Null, Null, Null)),
                            outcome |-> Null],
                 400, [error |-> ValidationError(Req(Null, Null, Null))[1]])
  /\ UNCHANGED <<applicants, nextId, appId, oracleCalls, addLog, addBy, local>>

\* POST from position i of its files, with locals loc, to its next await or
\* response: the next file sent is not a File (500), or its arrayBuffer is
\* awaited, or no file is left and the handler calls store.addApplicant and
\* awaits the oracle.  op names the step in the last event.
PostContinue(u, loc, i, op) ==
  LET r == loc.req
      j == NextFile(r, i)
      at == [loc EXCEPT !.file = j]
  IN IF HandlerThrows(r, j)
     THEN /\ pc' = [pc EXCEPT ![u] = "done"]
          /\ local' = [local EXCEPT ![u] = at]
          /\ ev' = Event("upload", [u |-> u, req |-> Some(r), outcome |-> Null], 500,
                         ServerError)
          /\ UNCHANGED <<applicants, nextId, appId, oracleCalls, addLog, addBy>>
     ELSE IF j <= 3
     THEN /\ pc' = [pc EXCEPT ![u] = "buffer"]
          /\ local' = [local EXCEPT ![u] = at]
          /\ ev' = Event(op, [u |-> u, req |-> Null, outcome |-> Null], 0, Null)
          /\ UNCHANGED <<applicants, nextId, appId, oracleCalls, addLog, addBy>>
     ELSE LET id == addApplicantId(applicants, nextId)
              documents == DocumentsWithText(r)
              t == Texts(r)
          IN /\ applicants' = addApplicant(applicants, id,
                                 [created_at |-> loc.now, documents |-> documents,
                                  screening_result |-> Null])
             /\ nextId' = nextId + 1
             /\ addLog' = Append(addLog, id)
             /\ addBy' = Append(addBy, u)
             /\ local' = [local EXCEPT ![u] = at]
             /\ appId' = [appId EXCEPT ![u] = id]
             /\ oracleCalls' = [oracleCalls EXCEPT ![u] = @ + 1]
             /\ pc' = [pc EXCEPT ![u] = "awaiting"]
             /\ ev' = Event("upload_await",
                            [u |-> u, req |-> Some(r), outcome |-> Null,
                             prompt |-> buildPrompt(t[1], t[2], t[3])],
                            0, Null)

\* POST of the form data r, which holds a file, from its start to its read
\* of the clock (const now) and on to the first await on a file
PostClock(u, r) ==
  /\ pc[u] = "idle"
  /\ \A v \in Uploads : v < u => pc[v] # "idle"
  /\ \E i \in 1..3 : Files(r)[i] # Null
  /\ \E t \in NextClock :
       PostContinue(u, [now |-> t, documentsUploaded |-> 0, req |-> r, file |-> 0],
                    1, "upload_clock")

\* POST from the resolution of <file>.arrayBuffer() of the file it is at:
\* validatePDF and its 400, or the call of extractTextFromPDF, which is
\* awaited
PostBuffer(u) ==
  LET r == local[u].req
      i == local[u].file
  IN /\ pc[u] = "buffer"
     /\ IF ValidationError(UpTo(r, i)) # Null
        THEN /\ pc' = [pc EXCEPT ![u] = "done"]
             /\ ev' = Event("upload", [u |-> u, req |-> Some(r), outcome |-> Null],
                            400, [error |-> ValidationError(UpTo(r, i))[1]])
        ELSE /\ pc' = [pc EXCEPT ![u] = "extract"]
             /\ ev' = Event("upload_buffer", [u |-> u, req |-> Null, outcome |-> Null],
                            0, Null)
     /\ UNCHANGED <<applicants, nextId, appId, oracleCalls, addLog, addBy, local>>

\* POST from the resolution of extractTextFromPDF of the file it is at:
\* documents.push, documentsUploaded++, and on to the next file or to
\* store.addApplicant.  The documents array and the three texts are those of
\* the files passed so far (DocumentsWithText, Texts).
PostText(u) ==
  /\ pc[u] = "extract"
  /\ PostContinue(u, [local[u] EXCEPT !.documentsUploaded = @ + 1],
                  local[u].file + 1, "upload_text")

\* the 200 body of POST
Uploaded(u) ==
  [applicant_id |-> appId[u],
   documents_uploaded |-> local[u].documentsUploaded,
   screening_started |-> TRUE]

\* a screening_result whose id is the time of screening, not the applicant's
ScreeningRecordOwnNumber(now, id, o) ==
  [id |-> now, applicant_id |-> id, screened_at |-> now] @@ screenApplicant(o)

\* the screening_result object passed to store.updateApplicant
ScreeningRecord(now, id, o) ==
  [id |-> id, applicant_id |-> id, screened_at |-> now] @@ screenApplicant(o)

\* a handler that calls the oracle a second time after a failed call
PostFinishRetry(u, o) ==
  /\ pc[u] = "awaiting"
  /\ IF o.kind # "ok" /\ oracleCalls[u] < 2
     THEN /\ oracleCalls' = [oracleCalls EXCEPT ![u] = @ + 1]
          /\ ev' = Event("upload_await", [u |-> u, req |-> Null, outcome |-> Some(o)],
                        0, Null)
          /\ UNCHANGED <<applicants, nextId, pc, appId, addLog, addBy, local>>
     ELSE /\ applicants' = updateApplicant(applicants, appId[u],
                             [screening_result |-> Some(ScreeningRecord(local[u].now, appId[u], o))])
          /\ pc' = [pc EXCEPT ![u] = "done"]
          /\ ev' = Event("upload", [u |-> u, req |-> Null, outcome |-> Some(o)], 200,
                        Uploaded(u))
          /\ UNCHANGED <<nextId, appId, oracleCalls, addLog, addBy, local>>

\* a handler whose screenApplicant lets a failed call escape to the outer
\* catch of POST: the response is 500 and no result is attached
PostFinishRethrows(u, o) ==
  /\ pc[u] = "awaiting"
  /\ pc' = [pc EXCEPT ![u] = "done"]
  /\ IF o.kind # "ok"
     THEN /\ ev' = Event("upload", [u |-> u, req |-> Null, outcome |-> Some(o)], 500,
                        ServerError)
          /\ UNCHANGED applicants
     ELSE /\ applicants' = updateApplicant(applicants, appId[u],
                             [screening_result |-> Some(ScreeningRecord(local[u].now, appId[u], o))])
          /\ ev' = Event("upload", [u |-> u, req |-> Null, outcome |-> Some(o)], 200,
                        Uploaded(u))
  /\ UNCHANGED <<nextId, appId, oracleCalls, addLog, addBy, local>>

\* POST from the completion of the oracle call (outcome o) to its response
PostFinish(u, o) ==
  /\ pc[u] = "awaiting"
  /\ applicants' = updateApplicant(applicants, appId[u],
                      [screening_result |-> Some(ScreeningRecord(local[u].now, appId[u], o))])
  /\ pc' = [pc EXCEPT ![u] = "done"]
  /\ ev' = Event("upload", [u |-> u, req |-> Null, outcome |-> Some(o)], 200,
                 Uploaded(u))
  /\ UNCHANGED <<nextId, appId, oracleCalls, addLog, addBy, local>>

\* ------------------------------------------------ applicants/[id]/route.ts
DigitChars == <<"0", "1", "2", "3", "4", "5", "6", "7", "8", "9">>

IsDigit(c) == \E d \in 1..10 : DigitChars[d] = c

Digit(c) == (CHOOSE d \in 1..10 : DigitChars[d] = c) - 1

\* the value of a run of digits, read left to right
RECURSIVE DigitsValue(_)
DigitsValue(s) ==
  IF s = <<>> THEN 0
  ELSE 10 * DigitsValue(SubSeq(s, 1, Len(s) - 1)) + Digit(s[Len(s)])

\* the longest prefix of s made of digits
RECURSIVE DigitPrefix(_)
DigitPrefix(s) ==
  IF s = <<>> \/ ~IsDigit(s[1]) THEN <<>>
  ELSE <<s[1]>> \o DigitPrefix(Tail(s))

\* parseInt on an unsigned string: Null is NaN
ParseInt(s) ==
  IF DigitPrefix(s) = <<>> THEN Null ELSE Some(DigitsValue(DigitPrefix(s)))

\* the id path parameters that get / delete requests carry
IdParams == {<<DigitChars[i + 1]>> : i \in ReqIds} \cup {<<"x">>}

\* GET /api/applicants/[id]: the response
GetById(apps, param) ==
  LET id == ParseInt(param)
      applicant == IF id = Null THEN Null ELSE getApplicant(apps, id[1])
  IN IF applicant = Null
     THEN [status |-> 404, body |-> [error |-> "Applicant not found"]]
     ELSE [status |-> 200, body |-> applicant[1]]

\* DELETE /api/applicants/[id]
DeleteById(param) ==
  LET id == ParseInt(param)
      deleted == id # Null /\ id[1] \in StoredIds(applicants)
  IN /\ applicants' = (IF id = Null THEN applicants
                       ELSE deleteApplicant(applicants, id[1]))
     /\ ev' = (IF deleted
               THEN Event("delete", param, 200,
                          [message |-> "Applicant deleted successfully"])
               ELSE Event("delete", param, 404, [error |-> "Applicant not found"]))
     /\ UNCHANGED <<nextId, pc, appId, oracleCalls, addLog, addBy, local>>

\* ------------------------------------------------------------ read side
\* a store whose getAllApplicants hands out its own backing array: what a
\* handler does to the array is done to the store
StoreAfterReadShared(apps, array) == array

\* the Map's values after a handler has filtered and sorted the array that
\* getAllApplicants returned: Array.from made a copy, the Map keeps its own
StoreAfterRead(apps, array) == apps

\* store.getAllApplicants(): a fresh array of the Map's values
getAllApplicants(apps) == apps

\* a filter that keeps the recommended applicants only
ScreenedRecommendedOnly(apps) ==
  FilterIdx(apps,
            {i \in 1..Len(apps) :
               /\ apps[i].screening_result # Null
               /\ apps[i].screening_result[1].recommended_for_interview},
            1)

\* a.screening_result !== null, as the sequence of the applicants kept
Screened(apps) ==
  FilterIdx(apps, {i \in 1..Len(apps) : apps[i].screening_result # Null}, 1)

\* a.screening_result?.overall_score || 0
SortKey(a) ==
  IF a.screening_result = Null THEN 0
  ELSE OrNum(Some(a.screening_result[1].overall_score), 0)

RECURSIVE InsertByScore(_, _), InsertByScoreAscending(_, _)
RECURSIVE InsertByScoreBeforeEquals(_, _)
\* a comparator with the operands swapped: lowest first
InsertByScoreAscending(x, s) ==
  IF s = <<>> THEN <<x>>
  ELSE IF SortKey(s[1]) <= SortKey(x)
       THEN <<s[1]>> \o InsertByScoreAscending(x, Tail(s))
  ELSE <<x>> \o s

\* an insertion that puts x in front of the elements of equal key: a sort
\* that is not stable
InsertByScoreBeforeEquals(x, s) ==
  IF s = <<>> THEN <<x>>
  ELSE IF SortKey(s[1]) > SortKey(x)
       THEN <<s[1]>> \o InsertByScoreBeforeEquals(x, Tail(s))
  ELSE <<x>> \o s

\* x placed behind every element whose key is at least its own
InsertByScore(x, s) ==
  IF s = <<>> THEN <<x>>
  ELSE IF SortKey(s[1]) >= SortKey(x) THEN <<s[1]>> \o InsertByScore(x, Tail(s))
  ELSE <<x>> \o s

\* Array.prototype.sort((a, b) => scoreB - scoreA): stable, highest first
RECURSIVE SortByScore(_)
SortByScore(s) ==
  IF s = <<>> THEN <<>>
  ELSE InsertByScore(s[Len(s)], SortByScore(SubSeq(s, 1, Len(s) - 1)))

RECURSIVE SumScores(_)
SumScores(s) ==
  IF s = <<>> THEN 0
  ELSE s[1].screening_result[1].overall_score + SumScores(Tail(s))

\* Math.round(avgScore * 10) / 10 in tenths: halves round up
AverageTenths(sum, n) == IF n > 0 THEN (20 * sum + n) \div (2 * n) ELSE 0

\* Math.max(1, Math.floor(n * percentage / 100)), percentage in tenths
TopCount(n, tenths) == Max(1, (n * tenths) \div 1000)

\* a summary whose top-15% count is taken of all applicants, pending ones
\* included
SummaryTopOfTotal(apps) ==
  LET all == getAllApplicants(apps)
      totalApplicants == Len(all)
      screenedCount == Len(Screened(all))
      recommended ==
        {i \in 1..Len(all) :
           /\ all[i].screening_result # Null
           /\ all[i].screening_result[1].recommended_for_interview = TRUE}
  IN [total_applicants |-> totalApplicants,
      screened_count |-> screenedCount,
      pending_count |-> totalApplicants - screenedCount,
      top_15_percent_count |->
        IF totalApplicants > 0 THEN TopCount(totalApplicants, 150) ELSE 0,
      average_score |-> AverageTenths(SumScores(Screened(all)), screenedCount),
      recommended_count |-> Cardinality(recommended)]

\* GET /api/applicants/analytics/summary: the response body, average_score
\* in tenths
Summary(apps) ==
  LET all == getAllApplicants(apps)
      totalApplicants == Len(all)
      screenedCount == Len(Screened(all))
      pendingCount == totalApplicants - screenedCount
      top15Count == IF screenedCount > 0 THEN TopCount(screenedCount, 150) ELSE 0
      recommended ==
        {i \in 1..Len(all) :
           /\ all[i].screening_result # Null
           /\ all[i].screening_result[1].recommended_for_interview = TRUE}
  IN [total_applicants |-> totalApplicants,
      screened_count |-> screenedCount,
      pending_count |-> pendingCount,
      top_15_percent_count |-> top15Count,
      average_score |-> AverageTenths(SumScores(Screened(all)), screenedCount),
      recommended_count |-> Cardinality(recommended)]

\* parseFloat on [-]digits[.digit]: the value in tenths, Null is NaN
ParseFloat(s) ==
  LET neg == s # <<>> /\ s[1] = "-"
      t == IF neg THEN Tail(s) ELSE s
      int == DigitPrefix(t)
      rest == SubSeq(t, Len(int) + 1, Len(t))
      frac == IF Len(rest) >= 2 /\ rest[1] = "." /\ IsDigit(rest[2])
              THEN Digit(rest[2]) ELSE 0
      mag == 10 * DigitsValue(int) + frac
  IN IF int = <<>> THEN Null ELSE Some(IF neg THEN 0 - mag ELSE mag)

DefaultPercentage == <<"1", "5", ".", "0">>

\* the percentage query parameters that are sent; Null is no parameter
PercentParams ==
  { Null, <<>>, <<"1", "5">>, <<"5", "0">>, <<"6", "7">>, <<"1", "0", "0">>,
    <<"2", "0", "0">>, <<"-", "5">>, <<"a", "b", "c">> }

\* a top-candidates handler that slices without sorting first
TopCandidatesUnsorted(apps, param) ==
  LET percentage == ParseFloat(IF param = Null \/ param = <<>>
                               THEN DefaultPercentage ELSE param)
      scored == Screened(getAllApplicants(apps))
      topCount == IF percentage = Null THEN 0
                  ELSE TopCount(Len(scored), percentage[1])
  IN [total_count |-> Len(scored),
      top_percentage |-> percentage,
      candidates |-> SubSeq(scored, 1, Min(topCount, Len(scored)))]

\* a top-candidates handler that counts every stored applicant and reports
\* the default percentage
TopCandidatesOfAll(apps, param) ==
  LET percentage == ParseFloat(IF param = Null \/ param = <<>>
                               THEN DefaultPercentage ELSE param)
      all == getAllApplicants(apps)
      sorted == SortByScore(Screened(all))
      topCount == IF percentage = Null THEN 0
                  ELSE TopCount(Len(sorted), percentage[1])
  IN [total_count |-> Len(all),
      top_percentage |-> ParseFloat(DefaultPercentage),
      candidates |-> SubSeq(sorted, 1, Min(topCount, Len(sorted)))]

\* GET /api/applicants/top-candidates: the response body, top_percentage in
\* tenths (Null is NaN)
TopCandidates(apps, param) ==
  LET percentage == ParseFloat(IF param = Null \/ param = <<>>
                               THEN DefaultPercentage ELSE param)
      scored == Screened(getAllApplicants(apps))
      sorted == SortByScore(scored)
      \* slice(0, NaN) is empty
      topCount == IF percentage = Null THEN 0
                  ELSE TopCount(Len(scored), percentage[1])
  IN IF Len(scored) = 0
     THEN [total_count |-> 0, top_percentage |-> percentage, candidates |-> <<>>]
     ELSE [total_count |-> Len(scored),
           top_percentage |-> percentage,
           candidates |-> SubSeq(sorted, 1, Min(topCount, Len(sorted)))]

\* the min_score query parameters that are sent, each with the number it
\* denotes in tenths (Null when it denotes none); text Null is no parameter
MinScoreInputs ==
  { [text |-> Null, value |-> Null],
    [text |-> <<>>, value |-> Null],
    [text |-> <<"0">>, value |-> Some(0)],
    [text |-> <<"4", "5">>, value |-> Some(450)],
    [text |-> <<"5", "0", ".", "5">>, value |-> Some(505)],
    [text |-> <<"1", "0", "0">>, value |-> Some(1000)],
    [text |-> <<"a", "b", "c">>, value |-> Null] }

\* the recommended_only query parameters that are sent
RecommendedInputs == {Null, Some("true"), Some("false")}

\* GET /api/applicants: the response body
ListApplicants(apps, minScore, recommendedParam) ==
  LET recommendedOnly == recommendedParam = Some("true")
      useMin == minScore # Null /\ minScore # <<>>
      all == getAllApplicants(apps)
      keep ==
        {i \in 1..Len(all) :
           /\ all[i].screening_result # Null
           /\ ~(/\ useMin
                /\ ParseFloat(minScore) # Null
                /\ 10 * all[i].screening_result[1].overall_score
                     < ParseFloat(minScore)[1])
           /\ ~(/\ recommendedOnly
                /\ ~all[i].screening_result[1].recommended_for_interview)}
      filtered == IF useMin \/ recommendedOnly THEN FilterIdx(all, keep, 1) ELSE all
  IN SortByScore(filtered)

\* store.clear()
Clear ==
  /\ applicants' = <<>>
  /\ nextId' = 1
  /\ addLog' = <<>>
  /\ addBy' = <<>>
  /\ ev' = Event("clear", Null, 0, Null)
  /\ UNCHANGED <<pc, appId, oracleCalls, local>>

\* ---------------------------------------------------------- specification
Init ==
  /\ applicants = <<>>
  /\ nextId = 1
  /\ pc = [u \in Uploads |-> "idle"]
  /\ appId = [u \in Uploads |-> 0]
  /\ oracleCalls = [u \in Uploads |-> 0]
  /\ addLog = <<>>
  /\ addBy = <<>>
  /\ local = [u \in Uploads |-> NoLocals]
  /\ ev = Event("init", Null, 0, Null)

\* the form data with files that MaxUploads concurrent uploads send: one
\* request passes validation (a resume and a transcript), one fails it
ConcurrentRequests ==
  { Req(Some(GoodPdf), Null, Some(GoodPdf)),
    Req(Some(TruncatedPdf), Null, Null) }

Next ==
  \/ \E u \in Uploads : PostEmpty(u)
  \/ \E u \in Uploads, r \in ConcurrentRequests : PostClock(u, r)
  \/ \E u \in Uploads : PostBuffer(u)
  \/ \E u \in Uploads : PostText(u)
  \/ \E u \in Uploads, o \in Outcomes : PostFinish(u, o)
  \/ \E param \in IdParams : DeleteById(param)
  \/ Clear

Spec == Init /\ [][Next]_vars

\* the handlers of the running service: concurrent uploads and deletes;
\* nothing in the service calls store.clear()
NextNoClear ==
  \/ \E u \in Uploads : PostEmpty(u)
  \/ \E u \in Uploads, r \in ConcurrentRequests : PostClock(u, r)
  \/ \E u \in Uploads : PostBuffer(u)
  \/ \E u \in Uploads : PostText(u)
  \/ \E u \in Uploads, o \in Outcomes : PostFinish(u, o)
  \/ \E param \in IdParams : DeleteById(param)

SpecNoClear == Init /\ [][NextNoClear]_vars

\* uploads that end in each of the handler's responses: the requests of
\* Spec and requests with a string in a file field
ErrorRequests ==
  Requests \cup
  { Req(Some(NotAFile), Null, Null),
    Req(Some(GoodPdf), Some(NotAFile), Some(NotPdf)),
    Req(Some(NotPdf), Null, Some(NotAFile)) }

MaxErrorUploads == 2

ErrorUploads == 1..Min(MaxErrorUploads, MaxUploads)

NextErrors ==
  \/ \E u \in ErrorUploads : PostEmpty(u)
  \/ \E u \in ErrorUploads, r \in ErrorRequests : PostClock(u, r)
  \/ \E u \in ErrorUploads : PostBuffer(u)
  \/ \E u \in ErrorUploads : PostText(u)
  \/ \E u \in ErrorUploads, o \in Outcomes : PostFinish(u, o)
  \/ \E param \in IdParams : DeleteById(param)
  \/ Clear

SpecErrors == Init /\ [][NextErrors]_vars

\* the upload requests that are sent when the oracle is assumed to end
\* every call
MaxFairUploads == 2

FairUploads == 1..Min(MaxFairUploads, MaxUploads)

NextFair ==
  \/ \E u \in FairUploads : PostEmpty(u)
  \/ \E u \in FairUploads, r \in Requests : PostClock(u, r)
  \/ \E u \in FairUploads : PostBuffer(u)
  \/ \E u \in FairUploads : PostText(u)
  \/ \E u \in FairUploads, o \in Outcomes : PostFinish(u, o)
  \/ \E param \in IdParams : DeleteById(param)
  \/ Clear

\* MaxFairUploads concurrent uploads with every request of Requests,
\* deletes and clear(), nothing assumed of the oracle
SpecTwo == Init /\ [][NextFair]_vars

\* an oracle that eventually resolves or rejects every call: the
\* continuation of an awaiting upload is then run by the event loop
FairSpec ==
  /\ Init
  /\ [][NextFair]_vars
  /\ \A u \in FairUploads : WF_vars(\E o \in Outcomes : PostFinish(u, o))

\* one upload request on its own, with every oracle outcome
NextSingle ==
  \/ PostEmpty(1)
  \/ \E r \in Requests : PostClock(1, r)
  \/ PostBuffer(1)
  \/ PostText(1)
  \/ \E o \in AllOutcomes : PostFinish(1, o)

SpecSingle == Init /\ [][NextSingle]_vars

\* ------------------------------------------- the store's methods directly
MaxStoreIds == 3

\* the fields addApplicant is given
AddInputs == { [created_at |-> 1, documents |-> <<>>, screening_result |-> Null] }

\* a screening_result as a caller may provide it
SomeResult ==
  Some([id |-> 1, applicant_id |-> 1, screened_at |-> 1]
         @@ screenApplicant([kind |-> "throw"]))

\* the updates updateApplicant is given: no field, one field, two fields
UpdateInputs ==
  { <<>>,
    [screening_result |-> SomeResult],
    [documents |-> <<[id |-> 1, document_type |-> "resume"]>>,
     screening_result |-> Null] }

StoreIds == 1..(MaxStoreIds + 1)

StoreAdd(fields) ==
  /\ nextId <= MaxStoreIds
  /\ LET id == addApplicantId(applicants, nextId)
     IN /\ applicants' = addApplicant(applicants, id, fields)
        /\ nextId' = nextId + 1
        /\ addLog' = Append(addLog, id)
        /\ addBy' = Append(addBy, 0)
        /\ ev' = Event("store_add", fields, 0, id)
  /\ UNCHANGED <<pc, appId, oracleCalls, local>>

StoreUpdate(id, updates) ==
  /\ applicants' = updateApplicant(applicants, id, updates)
  /\ ev' = Event("store_update", [id |-> id, updates |-> updates], 0,
                 updateApplicantReturn(applicants, id, updates))
  /\ UNCHANGED <<nextId, pc, appId, oracleCalls, addLog, addBy, local>>

StoreDelete(id) ==
  /\ applicants' = deleteApplicant(applicants, id)
  /\ ev' = Event("store_delete", id, 0, id \in StoredIds(applicants))
  /\ UNCHANGED <<nextId, pc, appId, oracleCalls, addLog, addBy, local>>

NextStore ==
  \/ \E fields \in AddInputs : StoreAdd(fields)
  \/ \E id \in StoreIds, updates \in UpdateInputs : StoreUpdate(id, updates)
  \/ \E id \in StoreIds : StoreDelete(id)
  \/ Clear

SpecStore == Init /\ [][NextStore]_vars

\* ------------------------------------------------ validatePDF on its own
MaxBufLen == 6

\* byte values a buffer is made of: NUL, "%", "-", "p", and three non-ASCII
Bytes == {0, 37, 45, 112, 128, 200, 255}

\* the start of a PDF file: the header followed by "1"s
PdfStart(n) == [i \in 1..n |-> IF i <= 5 THEN PdfHeader[i] ELSE 49]

\* the buffers validatePDF is called with: every prefix of a PDF file of up
\* to MaxBufLen bytes, as it is and with any one byte replaced
Buffers ==
  { PdfStart(n) : n \in 0..MaxBufLen } \cup
  { [PdfStart(n) EXCEPT ![i] = b] : n \in 1..MaxBufLen, i \in 1..MaxBufLen,
                                    b \in Bytes }

ValidateCall(buffer) ==
  /\ ev' = Event("validate", buffer, 0, validatePDF(buffer))
  /\ UNCHANGED <<applicants, nextId, pc, appId, oracleCalls, addLog, addBy, local>>

NextValidate == \E buffer \in Buffers : ValidateCall(buffer)

SpecValidate == Init /\ [][NextValidate]_vars

\* ------------------------------------------------- the read handlers
MaxApplicants == 14

\* the oracle outcomes of the uploads that filled the store, in turn
OutcomeCycle ==
  << [kind |-> "throw"],
     Parsed(Some(85), Some(80), Some(TRUE), Some("high")),
     Parsed(Null, Null, Null, Null),
     Parsed(Some(45), Some(70), Some(TRUE), Some("high")),
     Parsed(Some(85), Null, Some(FALSE), Some("medium")),
     Parsed(Some(150), Null, Some(TRUE), Some("high")),
     Parsed(Some(62), Null, Null, Some("low")) >>

\* the ways the store was filled: which uploads are still awaiting the
\* oracle and where in OutcomeCycle the others started
Fillings == 0..3

StillPending(n, k) ==
  CASE k = 0 -> FALSE
    [] k = 1 -> n % 3 = 0
    [] k = 2 -> TRUE
    [] OTHER -> n % 4 = 1

\* the store after uploads 1..n: each adds its record and, unless it is
\* still awaiting the oracle, attaches its result
RECURSIVE StoreAfter(_, _)
StoreAfter(n, k) ==
  IF n = 0 THEN <<>>
  ELSE LET added == addApplicant(StoreAfter(n - 1, k), n,
                                 [created_at |-> n,
                                  documents |->
                                    DocumentsWithText(Req(Some(GoodPdf), Null, Null)),
                                  screening_result |-> Null])
           o == OutcomeCycle[((n * (k + 1)) % Len(OutcomeCycle)) + 1]
       IN IF StillPending(n, k) THEN added
          ELSE updateApplicant(added, n,
                               [screening_result |-> Some(ScreeningRecord(n, n, o))])

\* a store filled by n earlier uploads, from which d was then deleted; the
\* request slots of the upload handler are unused
InitRead ==
  /\ \E n \in 0..MaxApplicants, k \in Fillings, d \in {0, 2} :
       /\ applicants = deleteApplicant(StoreAfter(n, k), d)
       /\ nextId = n + 1
       /\ addLog = [i \in 1..n |-> i]
       /\ addBy = [i \in 1..n |-> 0]
  /\ local = [u \in Uploads |-> NoLocals]
  /\ pc = [u \in Uploads |-> "idle"]
  /\ appId = [u \in Uploads |-> 0]
  /\ oracleCalls = [u \in Uploads |-> 0]
  /\ ev = Event("init", Null, 0, Null)

ReadUnchanged == UNCHANGED <<applicants, nextId, pc, appId, oracleCalls, addLog, addBy, local>>

ReadSummary ==
  /\ ev' = Event("summary", Null, 200, Summary(applicants))
  /\ ReadUnchanged

ReadTop(param) ==
  /\ ev' = Event("top", param, 200, TopCandidates(applicants, param))
  /\ applicants' = StoreAfterRead(applicants,
                                  SortByScore(Screened(getAllApplicants(applicants))))
  /\ UNCHANGED <<nextId, pc, appId, oracleCalls, addLog, addBy, local>>

ReadList(ms, rec) ==
  /\ ev' = Event("list", [min_score |-> ms, recommended_only |-> rec], 200,
                 ListApplicants(applicants, ms.text, rec))
  /\ applicants' = StoreAfterRead(applicants,
                                  ListApplicants(applicants, ms.text, rec))
  /\ UNCHANGED <<nextId, pc, appId, oracleCalls, addLog, addBy, local>>

ReadGet(param) ==
  /\ ev' = Event("get", param, GetById(applicants, param).status,
                 GetById(applicants, param).body)
  /\ ReadUnchanged

NextRead ==
  \/ ReadSummary
  \/ \E param \in PercentParams : ReadTop(param)
  \/ \E ms \in MinScoreInputs, rec \in RecommendedInputs : ReadList(ms, rec)
  \/ \E param \in IdParams : ReadGet(param)

SpecRead == InitRead /\ [][NextRead]_vars

\* ------------------------------------------------------------ properties
ScreenedIds(apps) ==
  {id \in StoredIds(apps) : getApplicant(apps, id)[1].screening_result # Null}

\* the upload request whose handler inserted the stored record id
CreatorOf(id) == addBy[CHOOSE k \in 1..Len(addLog) : addLog[k] = id]

\* the last event is the success response of an upload
UploadSucceeded == ev.op = "upload" /\ ev.status = 200

\* C1: whenever an upload responds success with applicant_id = i,
\* getApplicant(i) at that moment is a record with a non-null
\* screening_result whose id and applicant_id are i
C1_SuccessMeansScreened ==
  UploadSucceeded =>
    LET i == ev.body.applicant_id
        a == getApplicant(applicants, i)
    IN /\ a # Null
       /\ a[1].screening_result # Null
       /\ a[1].screening_result[1].id = i
       /\ a[1].screening_result[1].applicant_id = i

\* C2: the k-th addApplicant since creation or since the last clear()
\* returns k, whatever was deleted or updated in between
C2_IdsCountFromOne ==
  /\ \A k \in 1..Len(addLog) : addLog[k] = k
  /\ nextId = Len(addLog) + 1

\* C2 witness: a second insert after clear() got 1 again, then a delete of 1
\* and a third insert that got 2
C2_Witness ==
  /\ MaxUploads >= 3
  /\ appId[1] = 1 /\ appId[2] = 1 /\ appId[3] = 2
  /\ StoredIds(applicants) = {2}

\* a request without any document, or with a provided document that fails
\* validatePDF
BadRequest(r) ==
  \/ \A i \in 1..3 : Files(r)[i] = Null
  \/ \E i \in 1..3 : Files(r)[i] # Null /\ ~validatePDF(Files(r)[i][1])

\* C3: an upload without documents or with an invalid document is answered
\* 400, calls the oracle zero times and leaves the records and nextId as
\* they were
C3_BadUploadRejected ==
  [][/\ ev'.op \in {"upload_clock", "upload_buffer", "upload_text"}
          => (applicants' = applicants /\ nextId' = nextId)
     /\ (/\ ev'.op \in {"upload", "upload_await"}
         /\ ev'.arg.req # Null
         /\ BadRequest(ev'.arg.req[1])) =>
          /\ ev'.op = "upload" /\ ev'.status = 400
          /\ pc'[ev'.arg.u] = "done"
          /\ oracleCalls'[ev'.arg.u] = 0
          /\ applicants' = applicants
          /\ nextId' = nextId]_vars

\* C3 witness: a request whose first two documents are valid and whose
\* third is not was answered 400 while the store held a record
C3_Witness ==
  /\ ev.op = "upload" /\ ev.status = 400
  /\ ev.arg.req[1].resume # Null /\ validatePDF(ev.arg.req[1].resume[1])
  /\ ev.arg.req[1].transcript # Null /\ ~validatePDF(ev.arg.req[1].transcript[1])
  /\ Len(applicants) >= 1

\* the last event is the response of an upload whose oracle call threw or
\* whose oracle response did not parse
OracleFailed ==
  /\ ev.op = "upload" /\ ev.arg.outcome # Null
  /\ ev.arg.outcome[1].kind # "ok"

\* C4: an upload whose oracle call or parse failed responds success, and
\* its applicant, when still stored, holds the result 30 / false / "low",
\* is found by id and is counted as screened, not pending
C4_OracleFailureFallback ==
  OracleFailed =>
    /\ ev.status = 200
    /\ LET i == ev.body.applicant_id
           a == getApplicant(applicants, i)
           without == deleteApplicant(applicants, i)
       IN a # Null =>
            /\ a[1].screening_result # Null
            /\ a[1].screening_result[1].overall_score = 30
            /\ a[1].screening_result[1].recommended_for_interview = FALSE
            /\ a[1].screening_result[1].confidence_level = "low"
            /\ \E param \in IdParams : /\ GetById(applicants, param).status = 200
                                       /\ GetById(applicants, param).body = a[1]
            /\ Summary(applicants).screened_count
                 = Summary(without).screened_count + 1
            /\ Summary(applicants).pending_count = Summary(without).pending_count

\* C4 witness: such an upload has responded and its applicant is stored
C4_Witness ==
  /\ OracleFailed
  /\ ev.body.applicant_id \in StoredIds(applicants)
  /\ Summary(applicants).pending_count >= 1

\* C5: a stored applicant has a screening_result exactly when the oracle
\* call of the upload that created it has completed
C5_ScreenedIffOracleCompleted ==
  \A i \in 1..Len(applicants) :
    (applicants[i].screening_result # Null)
      <=> (pc[CreatorOf(applicants[i].id)] = "done")

\* the number of stored applicants with a screening_result
ScoredCount == Cardinality(ScreenedIds(applicants))

NonIncreasing(cands) ==
  \A i \in 1..(Len(cands) - 1) :
    cands[i].screening_result[1].overall_score
      >= cands[i + 1].screening_result[1].overall_score

\* C6: with N >= 1 scored applicants, top-candidates returns, for every
\* requested percentage p, exactly max(1, floor(N * p / 100)) candidates, at
\* least one, in non-increasing order of overall_score
C6_TopCountExact ==
  \A param \in PercentParams :
    LET t == TopCandidates(applicants, param)
    IN ScoredCount >= 1 =>
         /\ Len(t.candidates) >= 1
         /\ t.top_percentage # Null =>
              Len(t.candidates)
                = Max(1, (ScoredCount * t.top_percentage[1]) \div 1000)
         /\ NonIncreasing(t.candidates)

\* C7: in every store state the summary has screened_count + pending_count
\* = total_applicants, screened_count is the number of stored applicants
\* with a screening_result, and pending_count >= 0
C7_SummaryCountsAddUp ==
  LET s == Summary(applicants)
  IN /\ s.screened_count + s.pending_count = s.total_applicants
     /\ s.total_applicants = Cardinality(StoredIds(applicants))
     /\ s.screened_count = ScoredCount
     /\ s.pending_count >= 0

\* C7 witness: a store with screened and with pending applicants, one of
\* them screened and not recommended
C7_Witness ==
  /\ Summary(applicants).screened_count >= 2
  /\ Summary(applicants).pending_count >= 1
  /\ Summary(applicants).recommended_count < Summary(applicants).screened_count

\* C8: average_score (in tenths) lies in 0..100 whenever screened_count > 0
\* and is 0 when nothing is screened
C8_AverageInRange ==
  LET s == Summary(applicants)
  IN /\ s.screened_count > 0 => (0 <= s.average_score /\ s.average_score <= 1000)
     /\ s.screened_count = 0 => s.average_score = 0

\* the identifier a path parameter names is not in the store
Unknown(apps, param) ==
  ParseInt(param) = Null \/ ParseInt(param)[1] \notin StoredIds(apps)

\* C9: fetching an identifier that is not stored answers 404; deleting one
\* answers 404 and leaves the records and nextId as they were
C9_UnknownIdNotFound ==
  /\ [](\A param \in IdParams :
          Unknown(applicants, param) => GetById(applicants, param).status = 404)
  /\ [][(ev'.op = "delete" /\ Unknown(applicants, ev'.arg)) =>
          /\ ev'.status = 404
          /\ applicants' = applicants
          /\ nextId' = nextId]_vars

\* C9 witness: a delete of an identifier that was assigned and deleted
\* before was answered 404 while other records are stored
C9_Witness ==
  /\ ev.op = "delete" /\ ev.status = 404
  /\ ParseInt(ev.arg) # Null /\ ParseInt(ev.arg)[1] < nextId
  /\ Len(applicants) >= 1
  /\ ParseInt(ev.arg)[1] < applicants[1].id

\* C10: a screening_result, once set, stays as it is for as long as its
\* applicant record (same id, same created_at) is stored
C10_ResultNeverReplaced ==
  [][\A i \in 1..Len(applicants) : \A j \in 1..Len(applicants') :
       (/\ applicants[i].screening_result # Null
        /\ applicants'[j].id = applicants[i].id
        /\ applicants'[j].created_at = applicants[i].created_at)
         => applicants'[j].screening_result = applicants[i].screening_result]_vars

\* the last event is the response of an upload after its oracle call, and
\* the record it names is stored
Screened200 ==
  /\ ev.op = "upload" /\ ev.arg.outcome # Null
  /\ ev.body.applicant_id \in StoredIds(applicants)

\* the screening_result stored under the applicant_id of the last response
StoredResult ==
  getApplicant(applicants, ev.body.applicant_id)[1].screening_result[1]

\* C11: a parsed response without overall_score is stored with
\* overall_score 50 (and confidence_level "medium" when that is omitted
\* too), a failed call or parse with 30 and "low"; the omitted-score path
\* never stores the 30 / "low" fallback and the failure path never the 50
C11_DefaultsDistinct ==
  Screened200 =>
    LET o == ev.arg.outcome[1]
        sr == StoredResult
    IN /\ (o.kind = "ok" /\ o.overall_score = Null) =>
            /\ sr.overall_score = 50
            /\ o.confidence_level = Null => sr.confidence_level = "medium"
            /\ ~(/\ sr.overall_score = 30
                 /\ sr.recommended_for_interview = FALSE
                 /\ sr.confidence_level = "low")
       /\ o.kind # "ok" =>
            /\ sr.overall_score = 30
            /\ sr.confidence_level = "low"
            /\ sr.overall_score # 50

\* C11 witness: a parsed response that omits overall_score and
\* confidence_level but carries other fields has been stored
C11_Witness ==
  /\ Screened200
  /\ ev.arg.outcome[1].kind = "ok"
  /\ ev.arg.outcome[1].overall_score = Null
  /\ ev.arg.outcome[1].confidence_level = Null
  /\ ev.arg.outcome[1].recommended_for_interview = Some(TRUE)

ApplicantFields == {"id", "created_at", "documents", "screening_result"}

\* C12: updateApplicant on a stored id replaces exactly the provided fields
\* of that record and returns it; the other fields, the other records, the
\* order of the records and nextId stay; on an unknown id it returns
\* undefined and changes nothing
C12_UpdateFrame ==
  [][ev'.op = "store_update" =>
       LET id == ev'.arg.id
           upd == ev'.arg.updates
       IN /\ nextId' = nextId
          /\ IF id \in StoredIds(applicants)
             THEN /\ Len(applicants') = Len(applicants)
                  /\ \A i \in 1..Len(applicants) :
                       IF applicants[i].id = id
                       THEN /\ DOMAIN applicants'[i] = ApplicantFields
                            /\ \A f \in ApplicantFields :
                                 applicants'[i][f] =
                                   IF f \in DOMAIN upd THEN upd[f]
                                   ELSE applicants[i][f]
                            /\ ev'.body = Some(applicants'[i])
                       ELSE applicants'[i] = applicants[i]
             ELSE /\ applicants' = applicants
                  /\ ev'.body = Null]_vars

\* C12 witness: a two-field update has been applied to the second of three
\* records
C12_Witness ==
  /\ ev.op = "store_update"
  /\ Len(applicants) >= 3
  /\ ev.arg.id = applicants[2].id
  /\ DOMAIN ev.arg.updates = {"documents", "screening_result"}
  /\ applicants[2].documents # <<>>
  /\ applicants[1].screening_result # Null

Score(a) == a.screening_result[1].overall_score

\* C13: the list is in non-increasing order of overall_score; with a
\* min_score every applicant returned is scored with overall_score >=
\* min_score, with recommended_only every one is scored and recommended, and
\* without a filter every stored applicant is returned exactly once
C13_ListOrderedAndFiltered ==
  ev.op = "list" =>
    LET l == ev.body
        ms == ev.arg.min_score
        rec == ev.arg.recommended_only
    IN /\ \A i \in 1..Len(l) : \A j \in (i + 1)..Len(l) :
            /\ l[i].id # l[j].id
            /\ (l[i].screening_result # Null /\ l[j].screening_result # Null)
                 => Score(l[i]) >= Score(l[j])
       /\ \A i \in 1..Len(l) : getApplicant(applicants, l[i].id) = Some(l[i])
       /\ ms.value # Null =>
            \A i \in 1..Len(l) :
              l[i].screening_result # Null /\ 10 * Score(l[i]) >= ms.value[1]
       /\ rec = Some("true") =>
            \A i \in 1..Len(l) :
              /\ l[i].screening_result # Null
              /\ l[i].screening_result[1].recommended_for_interview = TRUE
       /\ (ms.text = Null /\ rec # Some("true")) =>
            /\ Len(l) = Len(applicants)
            /\ {l[i].id : i \in 1..Len(l)} = StoredIds(applicants)

\* C13 witness: a list with min_score 45 returned several applicants of
\* different scores and left scored applicants out
C13_Witness ==
  /\ ev.op = "list"
  /\ ev.arg.min_score.value = Some(450)
  /\ Len(ev.body) >= 3
  /\ Score(ev.body[1]) > Score(ev.body[Len(ev.body)])
  /\ Len(ev.body) < ScoredCount
  /\ Len(applicants) > ScoredCount

\* the upload request u passed validation
Accepted(u) == pc[u] # "idle" /\ appId[u] # 0

\* the upload request u was rejected by validation
Rejected(u) == pc[u] = "done" /\ appId[u] = 0

\* C14: an upload that passed validation has called the oracle exactly once
\* from the moment it awaits it, also after a failed call, and an upload
\* rejected by validation has called it zero times
C14_OracleCalledOnce ==
  \A u \in Uploads :
    /\ Accepted(u) => oracleCalls[u] = 1
    /\ Rejected(u) => oracleCalls[u] = 0
    /\ pc[u] \in {"idle", "buffer", "extract"} => oracleCalls[u] = 0

\* C14 witness: an upload whose oracle call threw has responded and another
\* upload was rejected
C14_Witness ==
  /\ ev.op = "upload" /\ ev.status = 200
  /\ ev.arg.outcome = Some([kind |-> "throw"])
  /\ oracleCalls[ev.arg.u] = 1
  /\ \E v \in Uploads : Rejected(v) /\ oracleCalls[v] = 0

\* the record that upload request u added, if it is still stored
OwnRecord(u) ==
  {i \in 1..Len(applicants) :
     applicants[i].id = appId[u] /\ CreatorOf(applicants[i].id) = u}

\* C15: with an oracle that ends every call, an upload that passed
\* validation eventually responds, and once it has responded the applicant
\* it added has a non-null screening_result unless it was deleted
C15_EventuallyScreened ==
  \A u \in Uploads :
    /\ (pc[u] = "awaiting") ~> (pc[u] = "done")
    /\ []((pc[u] = "done" /\ Accepted(u)) =>
            \A i \in OwnRecord(u) : applicants[i].screening_result # Null)

\* C15 witness: an upload responded after a failed oracle call while another
\* upload was awaiting the oracle, and the applicant it added has a result
C15_Witness ==
  /\ ev.op = "upload" /\ ev.status = 200
  /\ ev.arg.outcome = Some([kind |-> "badjson"])
  /\ OwnRecord(ev.arg.u) # {}
  /\ \A i \in OwnRecord(ev.arg.u) : applicants[i].screening_result # Null
  /\ \E v \in Uploads : pc[v] = "awaiting"

\* C16: without clear(), under every interleaving of uploads no two uploads
\* are given the same applicant id, no two stored applicants have the same
\* id, and every stored applicant is the one found under its own id and
\* carries the id given to the upload that added it
C16_IdsUnique ==
  /\ \A u, v \in Uploads :
       (Accepted(u) /\ Accepted(v) /\ u # v) => appId[u] # appId[v]
  /\ \A i, j \in 1..Len(applicants) :
       i # j => applicants[i].id # applicants[j].id
  /\ \A i \in 1..Len(applicants) :
       /\ getApplicant(applicants, applicants[i].id) = Some(applicants[i])
       /\ applicants[i].id = appId[CreatorOf(applicants[i].id)]

\* C16 witness: three uploads were accepted, two of them awaiting the oracle
\* at the same time, and an applicant was deleted in between
C16_Witness ==
  /\ \A u \in 1..3 : Accepted(u)
  /\ pc[2] = "awaiting" /\ pc[3] = "awaiting"
  /\ Len(applicants) = 2
  /\ appId[1] # appId[2] /\ appId[2] # appId[3] /\ appId[1] # appId[3]

Unranked(a) ==
  a.screening_result # Null =>
    /\ a.screening_result[1].rank = Null
    /\ a.screening_result[1].percentile = Null

\* C17: every stored screening result has rank = null and percentile =
\* null, and so has every applicant in a list or top-candidates response
C17_RankAlwaysNull ==
  /\ \A i \in 1..Len(applicants) : Unranked(applicants[i])
  /\ \A param \in PercentParams :
       LET c == TopCandidates(applicants, param).candidates
       IN \A i \in 1..Len(c) : Unranked(c[i])
  /\ \A ms \in MinScoreInputs, rec \in RecommendedInputs :
       LET l == ListApplicants(applicants, ms.text, rec)
       IN \A i \in 1..Len(l) : Unranked(l[i])

\* C17 witness: an upload whose oracle response carried a rank and a
\* percentile has responded and its result is stored
C17_Witness ==
  /\ ev.op = "upload" /\ ev.status = 200
  /\ ev.arg.outcome # Null /\ "rank" \in DOMAIN ev.arg.outcome[1]
  /\ \E i \in OwnRecord(ev.arg.u) :
       /\ applicants[i].screening_result # Null
       /\ applicants[i].screening_result[1].overall_score = 150
       /\ applicants[i].screening_result[1].rank = Null

\* C18: in one store state the summary's top_15_percent_count is the number
\* of candidates top-candidates returns for percentage 15 (sent or by
\* default): 0 when no applicant is screened and
\* max(1, floor(screened_count * 15 / 100)) otherwise
C18_SummaryTopMatches ==
  LET s == Summary(applicants)
  IN /\ s.top_15_percent_count
          = Len(TopCandidates(applicants, <<"1", "5">>).candidates)
     /\ s.top_15_percent_count = Len(TopCandidates(applicants, Null).candidates)
     /\ s.screened_count = 0 => s.top_15_percent_count = 0
     /\ s.screened_count > 0 =>
          s.top_15_percent_count = Max(1, (s.screened_count * 15) \div 100)
     /\ ev.op = "summary" => ev.body = s
     /\ (ev.op = "top" /\ ev.arg = <<"1", "5">>) =>
          Len(ev.body.candidates) = s.top_15_percent_count

\* C18 witness: top-candidates was asked for 15 percent of enough screened
\* applicants to return two
C18_Witness ==
  /\ ev.op = "top" /\ ev.arg = <<"1", "5">>
  /\ Len(ev.body.candidates) = 2
  /\ Summary(applicants).top_15_percent_count = 2
  /\ Summary(applicants).screened_count >= 14

\* the percentage a top-candidates request asks for, in tenths: 15 when it
\* sends none, Null when what it sends is not a number
Requested(param) ==
  CASE param = Null -> Some(150)
    [] param = <<>> -> Some(150)
    [] param = <<"1", "5">> -> Some(150)
    [] param = <<"5", "0">> -> Some(500)
    [] param = <<"6", "7">> -> Some(670)
    [] param = <<"1", "0", "0">> -> Some(1000)
    [] param = <<"2", "0", "0">> -> Some(2000)
    [] param = <<"-", "5">> -> Some(0 - 50)
    [] OTHER -> Null

\* C19: a top-candidates response has total_count equal to the number of
\* stored applicants with a screening_result and top_percentage equal to
\* the percentage asked for (15 when none is sent); when no applicant is
\* scored, total_count is 0 and the list is empty
C19_TopResponseEchoes ==
  ev.op = "top" =>
    /\ ev.body.total_count = ScoredCount
    /\ Requested(ev.arg) # Null => ev.body.top_percentage = Requested(ev.arg)
    /\ ScoredCount = 0 =>
         /\ ev.body.total_count = 0
         /\ ev.body.candidates = <<>>

\* C19 witness: top-candidates was asked for 67 percent while some
\* applicants were scored and others pending
C19_Witness ==
  /\ ev.op = "top" /\ ev.arg = <<"6", "7">>
  /\ ev.body.total_count >= 3
  /\ ev.body.top_percentage = Some(670)
  /\ Len(applicants) > ev.body.total_count
  /\ Len(ev.body.candidates) >= 2

\* C20: every stored screening result with overall_score below 60 has
\* recommended_for_interview = false
C20_LowScoreNotRecommended ==
  \A i \in 1..Len(applicants) :
    (/\ applicants[i].screening_result # Null
     /\ applicants[i].screening_result[1].overall_score < 60)
      => applicants[i].screening_result[1].recommended_for_interview = FALSE

\* C21: validatePDF returns true exactly for the buffers of at least five
\* bytes whose first five bytes are "%PDF-", and a call leaves the store as
\* it was
C21_ValidatePdfHeader ==
  /\ [](ev.op = "validate" =>
          (ev.body = TRUE <=>
             /\ Len(ev.arg) >= 5
             /\ \A i \in 1..5 : ev.arg[i] = PdfHeader[i]))
  /\ [][ev'.op = "validate" =>
          UNCHANGED <<applicants, nextId, pc, appId, oracleCalls, addLog, addBy, local>>]_vars

\* C21 witness: validatePDF accepted a buffer of more than five bytes whose
\* sixth byte is not ASCII
C21_Witness ==
  /\ ev.op = "validate" /\ ev.body = TRUE
  /\ Len(ev.arg) > 5 /\ ev.arg[6] = 255

\* scored applicants of equal overall_score appear in l in store order
TiesInStoreOrder(l) ==
  \A i \in 1..Len(l) : \A j \in (i + 1)..Len(l) :
    (/\ l[i].screening_result # Null /\ l[j].screening_result # Null
     /\ Score(l[i]) = Score(l[j]))
      => IndexOf(applicants, l[i].id) < IndexOf(applicants, l[j].id)

\* C22: list and top-candidates keep applicants of equal overall_score in
\* store insertion order (ascending id), top-candidates selects the
\* earlier-inserted ones of a tie at its cut-off, and an upload attaching
\* its result leaves the store order as it was
C22_TiesKeepStoreOrder ==
  /\ [](/\ \A i \in 1..Len(applicants) : \A j \in (i + 1)..Len(applicants) :
             applicants[i].id < applicants[j].id
        /\ TiesInStoreOrder(ListApplicants(applicants, Null, Null))
        /\ TiesInStoreOrder(ListApplicants(applicants, <<"4", "5">>, Some("true")))
        /\ \A param \in PercentParams :
             LET c == TopCandidates(applicants, param).candidates
             IN /\ TiesInStoreOrder(c)
                /\ \A i \in 1..Len(c) : \A k \in 1..Len(applicants) :
                     (/\ applicants[k].screening_result # Null
                      /\ Score(applicants[k]) = Score(c[i])
                      /\ \A j \in 1..Len(c) : c[j].id # applicants[k].id)
                       => IndexOf(applicants, c[i].id) < k)
  /\ [][(ev'.op = "upload" /\ ev'.status = 200) =>
          [i \in 1..Len(applicants') |-> applicants'[i].id]
            = [i \in 1..Len(applicants) |-> applicants[i].id]]_vars

\* C22 witness: the first of three uploads got its result last, with the
\* same score as the second, and top-candidates at 50 percent selects it
\* alone
C22_Witness ==
  /\ ev.op = "upload" /\ ev.status = 200 /\ ev.arg.u = 1
  /\ Len(applicants) = 3
  /\ \A i \in 1..3 : applicants[i].screening_result # Null
  /\ Score(applicants[1]) = Score(applicants[2])
  /\ Score(applicants[3]) <= Score(applicants[1])
  /\ TopCandidates(applicants, <<"5", "0">>).candidates = <<applicants[1]>>

\* the files of the last upload request whose text extraction failed
FailedExtractions ==
  {i \in 1..3 : /\ Files(ev.arg.req[1])[i] # Null
                /\ PdfParseCall(Files(ev.arg.req[1])[i][1]).kind = "throw"}

\* C23: an upload whose files all have a valid header and of which some
\* fail text extraction inserts the applicant, stores and counts every file
\* sent (the failed ones with empty extracted_text), calls the oracle once
\* with the failed files marked as not provided, and then responds success
\* with that count
C23_ExtractionFailureTolerated ==
  /\ []((/\ ev.op \in {"upload", "upload_await"}
         /\ ev.arg.req # Null
         /\ ~BadRequest(ev.arg.req[1])
         /\ FailedExtractions # {}) =>
          LET sent == {i \in 1..3 : Files(ev.arg.req[1])[i] # Null}
              rec == getApplicant(applicants, appId[ev.arg.u])
          IN /\ ev.op = "upload_await"
             /\ pc[ev.arg.u] = "awaiting"
             /\ local[ev.arg.u].documentsUploaded = Cardinality(sent)
             /\ rec # Null
             /\ Len(rec[1].documents) = Cardinality(sent)
             /\ \A i \in FailedExtractions :
                  /\ \E d \in 1..Len(rec[1].documents) :
                       /\ rec[1].documents[d].document_type = DocTypes[i]
                       /\ rec[1].documents[d].extracted_text = <<>>
                  /\ ev.arg.prompt[i].provided = FALSE
             /\ oracleCalls[ev.arg.u] = 1)
  /\ [][\A u \in Uploads :
          (pc[u] = "awaiting" /\ pc'[u] = "done") =>
            /\ ev'.op = "upload" /\ ev'.status = 200
            /\ ev'.body.applicant_id = appId[u]
            /\ ev'.body.documents_uploaded = local[u].documentsUploaded]_vars

\* C23 witness: an upload of a resume and a transcript, both of which
\* failed extraction, responded success, and its applicant is stored with
\* both documents
C23_Witness ==
  /\ ev.op = "upload" /\ ev.status = 200
  /\ ev.body.documents_uploaded = 2
  /\ LET rec == getApplicant(applicants, ev.body.applicant_id)
     IN /\ rec # Null
        /\ Len(rec[1].documents) = 2
        /\ rec[1].documents[2].document_type = "transcript"
        /\ rec[1].documents[2].extracted_text = <<>>

\* C24: on the parse-success path a score of 0 is stored as an omitted one
\* is (overall_score 50, component score null), and no stored result has
\* overall_score 0 or a component score of 0
C24_ZeroScoreDefaulted ==
  /\ Screened200 =>
       LET o == ev.arg.outcome[1]
           sr == StoredResult
       IN o.kind = "ok" =>
            /\ o.overall_score \in {Null, Some(0)} => sr.overall_score = 50
            /\ o.resume_score \in {Null, Some(0)} => sr.resume_score = Null
            /\ screenApplicant(o)
                 = screenApplicant([o EXCEPT
                     !.overall_score = IF @ = Some(0) THEN Null ELSE @,
                     !.resume_score = IF @ = Some(0) THEN Null ELSE @])
  /\ \A i \in 1..Len(applicants) :
       applicants[i].screening_result # Null =>
         /\ applicants[i].screening_result[1].overall_score # 0
         /\ applicants[i].screening_result[1].resume_score # Some(0)

\* C24 witness: an upload whose oracle response had overall_score 0 and a
\* component score of 0 stored 50 and null
C24_Witness ==
  /\ Screened200
  /\ ev.arg.outcome[1].kind = "ok"
  /\ ev.arg.outcome[1].overall_score = Some(0)
  /\ ev.arg.outcome[1].resume_score = Some(0)
  /\ StoredResult.overall_score = 50
  /\ StoredResult.resume_score = Null

\* C25: an upload that attaches its screening result changes no record but
\* the one its own handler inserted
C25_ResultOnOwnRecord ==
  [][(ev'.op = "upload" /\ ev'.status = 200) =>
       \A i \in 1..Len(applicants) :
         applicants'[i] # applicants[i]
           => CreatorOf(applicants[i].id) = ev'.arg.u]_vars

\* the ids that addApplicant has handed out and that are no longer stored:
\* without clear(), those of the applicants deleted
DeletedIds == {i \in 1..(nextId - 1) : i \notin StoredIds(applicants)}

IdsOf(l) == {l[i].id : i \in 1..Len(l)}

\* C26: without clear(), a deleted applicant is absent from fetch, list,
\* top-candidates and the summary's total, and stays absent in every later
\* state, also when the upload that created it attaches its result after
\* the delete
C26_DeletedStaysDeleted ==
  /\ [](\A i \in DeletedIds :
          /\ GetById(applicants, <<DigitChars[i + 1]>>).status = 404
          /\ i \notin IdsOf(ListApplicants(applicants, Null, Null))
          /\ \A param \in PercentParams :
               i \notin IdsOf(TopCandidates(applicants, param).candidates)
          /\ Summary(applicants).total_applicants = nextId - 1 - Cardinality(DeletedIds))
  /\ [][\A i \in DeletedIds : i \notin StoredIds(applicants')]_vars

\* C26 witness: an upload attached its result after its applicant had been
\* deleted, while another applicant was stored
C26_Witness ==
  /\ ev.op = "upload" /\ ev.status = 200
  /\ ev.body.applicant_id \in DeletedIds
  /\ Len(applicants) >= 1

\* C27: an upload that ends with a 400 or 500 response has inserted no
\* applicant and its response step leaves the records and the counter as
\* they were; an upload that has inserted its applicant ends with the
\* success response
C27_ErrorLeavesStore ==
  [][\A u \in Uploads :
       (pc[u] # "done" /\ pc'[u] = "done") =>
         /\ ev'.op = "upload" /\ ev'.arg.u = u
         /\ ev'.status \in {400, 500} =>
              /\ appId'[u] = 0
              /\ applicants' = applicants
              /\ nextId' = nextId
         /\ appId'[u] # 0 => ev'.status = 200]_vars

\* C27 witness: an upload was answered 500 after its resume had passed
\* validation, while the store held the applicant of another upload
C27_Witness ==
  /\ ev.op = "upload" /\ ev.status = 500
  /\ ev.arg.req[1].resume = Some(GoodPdf)
  /\ appId[ev.arg.u] = 0
  /\ Len(applicants) >= 1

\* C28: get, list, top-candidates and summary leave the records, their
\* contents, their order and the identifier counter as they were
C28_ReadsLeaveStore ==
  [][ev'.op \in {"get", "list", "top", "summary"} =>
       /\ applicants' = applicants
       /\ nextId' = nextId]_vars

\* C28 witness: a list without filter returned every stored applicant in
\* an order that is not the store's
C28_Witness ==
  /\ ev.op = "list"
  /\ ev.arg.min_score.text = Null /\ ev.arg.recommended_only = Null
  /\ Len(ev.body) >= 3
  /\ IdsOf(ev.body) = StoredIds(applicants)
  /\ ev.body # applicants

\* C29: every candidate of a top-candidates response is a stored applicant
\* with a screening_result, no applicant is returned twice, the candidates
\* are at most total_count, and no scored applicant left out has a higher
\* overall_score than a candidate
C29_TopSelectionSound ==
  ev.op = "top" =>
    LET c == ev.body.candidates
    IN /\ \A i \in 1..Len(c) :
            /\ getApplicant(applicants, c[i].id) = Some(c[i])
            /\ c[i].screening_result # Null
            /\ \A j \in (i + 1)..Len(c) : c[i].id # c[j].id
       /\ Len(c) <= ev.body.total_count
       /\ \A k \in 1..Len(applicants) :
            (/\ applicants[k].screening_result # Null
             /\ applicants[k].id \notin IdsOf(c))
              => \A i \in 1..Len(c) : Score(applicants[k]) <= Score(c[i])

\* C29 witness: top-candidates at 50 percent selected several applicants
\* and left scored ones out, with pending applicants in the store
C29_Witness ==
  /\ ev.op = "top" /\ ev.arg = <<"5", "0">>
  /\ Len(ev.body.candidates) >= 3
  /\ Len(ev.body.candidates) < ev.body.total_count
  /\ ev.body.total_count < Len(applicants)
  /\ Score(ev.body.candidates[1]) > Score(ev.body.candidates[Len(ev.body.candidates)])

\* C30: every stored screening_result has id and applicant_id equal to the
\* id of the record holding it, and the summary's recommended_count and
\* top_15_percent_count are at most its screened_count
C30_ResultIdsAndCounts ==
  /\ \A i \in 1..Len(applicants) :
       applicants[i].screening_result # Null =>
         /\ applicants[i].screening_result[1].id = applicants[i].id
         /\ applicants[i].screening_result[1].applicant_id = applicants[i].id
  /\ Summary(applicants).recommended_count <= Summary(applicants).screened_count
  /\ Summary(applicants).top_15_percent_count <= Summary(applicants).screened_count

\* C30 witness: two screened applicants are stored, one recommended, whose
\* ids are not the times at which they were screened
C30_Witness ==
  /\ Len(applicants) = 2
  /\ \A i \in 1..2 :
       /\ applicants[i].screening_result # Null
       /\ applicants[i].id # applicants[i].screening_result[1].screened_at
  /\ Summary(applicants).recommended_count = 1
  /\ Summary(applicants).top_15_percent_count = 1

====
